---- MODULE Spec2Model ----
(***************************************************************************)
(* Model of the CSOD fetch client: the token cache (getCSODToken), the     *)
(* resilient fetch (apiFetch) and the OData paginator                      *)
(* (paginatedFetchFromCSOD), with a nondeterministic origin server.        *)
(* Every await of the code is one action.  Spec is one top-level call of   *)
(* the fetch functions, SpecRequest one call of apiFetch itself,           *)
(* SpecPaginated one walk under fair scheduling, SpecWalks a caller that   *)
(* walks a collection again, SpecUsers a caller that walks the users view  *)
(* with both paginators, SpecExplicit a call with the caller's own token   *)
(* beside a caller of getCSODToken(), SpecToken a caller of getCSODToken() *)
(* alone, SpecCached such a caller that then walks a collection,           *)
(* SpecOverlap callers of getCSODToken() that do not await one             *)
(* another, and SpecUser and SpecTranscripts one call of getUserInfoById   *)
(* and of getTranscripts of index.ts.                                      *)
(***************************************************************************)
EXTENDS Integers, Sequences, FiniteSets, TLC

\* ------------------------------------------------------------------ bounds
MaxCalls == 3        \* apiFetch calls (pages) of one top-level call
MaxItems == 2        \* items of one page
MaxGets == 3         \* direct get() calls on the token cache
MaxOverlap == 2      \* get() calls made without awaiting one another
MaxWalks == 2        \* top-level calls a caller makes one after another

\* ------------------------------------------------------- program constants
BackoffLimit == 60   \* apiFetch: if (delay <= 60)
BackoffStep == 15    \* apiFetch: delay + 15
TokenTTL == 15       \* apiToken.get: expiration.getSeconds() + 15

\* ------------------------------------------------------------- the origin
\* Strings are sequences of segments; the empty string is <<>>.
CSOD_API_HOST == <<"host">>
Paths == {<<"p1">>, <<"p2">>}
SyncEndpoint == <<"sync">>
NoLink == <<>>
Links == {CSOD_API_HOST \o p : p \in Paths}

\* HTTP statuses the origin answers with.
Statuses == {200, 429, 500}

\* JavaScript null, also what response.json() gives for the JSON text null.
Null == [kind |-> "null"]
\* A JSON object without a value field (an error document, for instance).
PlainObject == [kind |-> "object"]
\* A payload JSON.stringify throws on (circular reference, BigInt).
Circular == [kind |-> "circular"]
\* A payload whose toJSON throws a value that is itself not serialisable
\* ({ toJSON() { throw 1n } }).
ThrowsBigInt == [kind |-> "throwsBigInt"]

RECURSIVE ItemsOf(_, _)
\* The items of a page of n rows on path segment p, in response order.
ItemsOf(p, n) == IF n = 0 THEN <<>> ELSE <<<<p, n>>>> \o ItemsOf(p, n - 1)

\* ODataResponse<T>: value and an optional @odata.nextLink.
ODataResponse(v, l) == [kind |-> "page", value |-> v, nextLink |-> l]
PagesAt(u) == {ODataResponse(ItemsOf(u[2], n), l) : n \in 0..MaxItems, l \in Links \cup {NoLink}}

\* A page the origin has not served yet.
Unserved == [kind |-> "unserved"]

\* The token endpoint's answers: a 2xx token document, a non-2xx error
\* document, an unparsable body, or no answer at all (network error).
TokenOutcomes == {"ok", "non2xx", "unparsable", "network"}
\* `${token_type} ${access_token}` of an error document.
UndefinedToken == -1
\* A token the caller passes in, the SYNC_API_TOKEN header, and no token.
ExplicitToken == 99
SyncToken == 98
NoToken == 0
\* let expiration: Date, before the first assignment.
NoExpiration == [secs |-> 0, shifts |-> 0]
\* Seconds a credential-issuing request can take.
Durations == {0, 1}
\* JavaScript undefined, and the number 0: a payload that is not null but falsy.
Undefined == [kind |-> "undefined"]
Zero == [kind |-> "zero"]
\* Payloads a caller passes.
Payloads == {Null, PlainObject, Circular, ThrowsBigInt, Zero}
\* ApiMethod
Methods == {"GET", "POST"}
\* Header values are numbers like the tokens: the strings 'application/json'
\* and 'text/plain'.
ApplicationJson == 97
TextPlain == 96
\* Header objects a caller can hand to apiFetch.
HeaderObjects ==
  {<<>>,
   "Authorization" :> ExplicitToken,
   "Content-Type" :> TextPlain,
   "Content-Type" :> ApplicationJson,
   ("Content-Type" :> TextPlain) @@ ("Authorization" :> ExplicitToken),
   ("Accept" :> TextPlain) @@ ("Authorization" :> ExplicitToken)}
\* Seconds a caller lets pass between two calls: just under the TTL, the TTL,
\* and just over it.
Waits == {TokenTTL - 1, TokenTTL, TokenTTL + 1}
\* The direct get() calls, numbered in the order they are made.
Getters == 1..MaxGets

VARIABLES
  caller,      \* the top-level function running
  pc,          \* the await the caller is suspended at
  uri,         \* apiFetch: uri
  delay,       \* apiFetch: delay
  payload,     \* apiFetch: payload
  authz,       \* the token of the call: headers.Authorization (or Auth-Token)
  headers,     \* apiFetch: headers
  method,      \* apiFetch: method
  collection,  \* paginatedFetchFromCSOD: collection
  response,    \* apiFetch: the settled node-fetch Response
  result,      \* apiFetch: the tuple it returned
  ret,         \* how the top-level call settled
  log,         \* the HTTP requests of the current apiFetch call, in order
  fetched,     \* the uri of every apiFetch call of the top-level call, in order
  runs,        \* top-level calls started
  dataset,     \* the origin's pages, fixed once served
  token,       \* apiToken: token
  expiration,  \* apiToken: expiration
  now,         \* wall clock: seconds since the cached credential was issued
  issuances,   \* credential-issuing requests sent
  sinceGet,    \* wall clock: seconds since the previous direct get() call was made
  getters,     \* the direct get() calls on the cache: position and history
  earlier      \* how the earlier top-level calls of the caller settled

vars == <<caller, pc, uri, delay, payload, authz, headers, method, collection, response, result,
          ret, log, fetched, runs, dataset, token, expiration, now, issuances,
          sinceGet, getters, earlier>>

NoResponse == [status |-> 0, parsable |-> FALSE, body |-> Null]
NoResult == <<Null, Null>>

\* How a top-level call settles: not yet, with a value, or with an exception.
NoReturn == [kind |-> "pending"]
Returned(v) == [kind |-> "value", value |-> v]
Raised(e) == [kind |-> "exception", error |-> e]

\* ------------------------------------------------------------------ time
\* The code reads the clock only to compare it with expiration; the clock
\* counts from the last issuance and stops one second past the TTL.
Horizon == TokenTTL + 1
Later(t, sec) == IF t + sec > Horizon THEN Horizon ELSE t + sec
\* Mutant of After: sleep(sec) waits sec milliseconds, no time to speak of.
AfterMillis(sec) == now
After(sec) == IF now + sec > Horizon THEN Horizon ELSE now + sec

\* A get() call that has not been made: where the call is suspended, what the
\* call found (seconds since the previous call, seconds since the issuance,
\* the cached token and expiration), the number of its issuing request and how that request
\* ended, whether the call stored a token, and how the call settled.
NotCalled ==
  [pc |-> "idle", gap |-> 0, age |-> 0, before |-> NoToken, exp |-> NoExpiration,
   fresh |-> FALSE,
   n |-> 0, outcome |-> "none", stored |-> FALSE, ret |-> NoReturn]

Init ==
  /\ caller = "none"
  /\ pc = "idle"
  /\ uri = <<>>
  /\ delay = 0
  /\ payload = Null
  /\ authz = NoToken
  /\ headers = <<>>
  /\ method = "none"
  /\ collection = <<>>
  /\ response = NoResponse
  /\ result = NoResult
  /\ ret = NoReturn
  /\ log = <<>>
  /\ fetched = <<>>
  /\ runs = 0
  /\ dataset = [u \in Links |-> Unserved]
  /\ token = NoToken
  /\ expiration = NoExpiration
  /\ now = 0
  /\ issuances = 0
  /\ sinceGet = Horizon
  /\ getters = [g \in Getters |-> NotCalled]
  /\ earlier = <<>>

\* ---------------------------------------------------------------- apiFetch
\* The status column of the log for a request in flight and for one that threw.
Pending == -1
TransportError == 0

\* Mutant of GaveUp: the failure keeps the status that caused it.
GaveUpWithStatus == [ok |-> FALSE, code |-> 429, body |-> [message |-> "429 - Gave up"]]
\* The FetchResponse of the three failure returns of apiFetch.
GaveUp == [ok |-> FALSE, code |-> 0, body |-> [message |-> "429 - Gave up"]]
ThrowedUp(error) ==
  [ok |-> FALSE, code |-> 0, body |-> [message |-> "fetch throwed up", error |-> error]]
BadResponse(code, body) == [ok |-> TRUE, code |-> code, body |-> body]

\* A promise of apiFetch that rejects instead of resolving to a tuple.
Rejected(error) == <<Raised(error)>>
IsRejected(r) == Len(r) = 1

\* safeStringify: an Error is turned into a plain object and a circular
\* reference is cut, but JSON.stringify still throws on a BigInt.
Loggable(error) == error # "bigint"

\* Mutant of Catch: a catch that drops the error.
CatchDropsError(error) ==
  IF Loggable(error) THEN <<Null, ThrowedUp("unknown")>> ELSE Rejected("TypeError")

\* try { ... } catch (error) { logger.error(..., { error, uri });
\* return [null, {... error}] }: logging the caught value throws, out of the
\* catch block, when the value cannot be serialised.
Catch(error) ==
  IF Loggable(error) THEN <<Null, ThrowedUp(error)>> ELSE Rejected("TypeError")

\* payload ? JSON.stringify(payload) : undefined
StringifyThrows(p) == p \in {Circular, ThrowsBigInt}
\* What JSON.stringify(payload) throws: its own TypeError, or the value the
\* payload's toJSON throws.
Thrown(p) == IF p = ThrowsBigInt THEN "bigint" ELSE "stringify"

\* Mutant of ApiFetchCall: the delay of the call before is kept.
ApiFetchCallKeepsDelay(u, hs, p, before) ==
  /\ uri' = u
  /\ headers' = hs
  /\ payload' = p
  /\ delay' = delay
  /\ fetched' = Append(before, u)
  /\ log' = <<>>
  /\ response' = NoResponse
  /\ result' = NoResult
  /\ pc' = "sleep"
\* A call apiFetch(u, hs, p, method) with the default delay, up to its first
\* await, after the apiFetch calls before of the top-level call.
ApiFetchCall(u, hs, p, before) ==
  /\ uri' = u
  /\ headers' = hs
  /\ payload' = p
  /\ delay' = 0
  /\ fetched' = Append(before, u)
  /\ log' = <<>>
  /\ response' = NoResponse
  /\ result' = NoResult
  /\ pc' = "sleep"

\* Mutant of ApiFetchEnter: the header is built from the cache as it is.
ApiFetchEnterFromCache(u, h, p, before) ==
  ApiFetchCall(u, "Authorization" :> token, p, before) /\ authz' = token
\* The call apiFetch(u, {Authorization: h}, p, method) of fetchFromCSOD and
\* paginatedFetchFromCSOD.
ApiFetchEnter(u, h, p, before) ==
  ApiFetchCall(u, "Authorization" :> h, p, before) /\ authz' = h

\* payload ? ... : ..., and JSON.stringify(payload) as the text of p.
Truthy(p) == p \notin {Null, Undefined, Zero}
Stringify(p) == [kind |-> "json", of |-> p]
\* body: payload ? JSON.stringify(payload) : undefined
RequestBody(p) == IF Truthy(p) THEN Stringify(p) ELSE Undefined

\* Mutant of MergeHeaders: the default is spread last and wins.
MergeHeadersDefaultLast(hs) ==
  [n \in DOMAIN hs \cup {"Content-Type"} |->
     IF n = "Content-Type" THEN ApplicationJson ELSE hs[n]]
\* { 'Content-Type': 'application/json', ...headers }
MergeHeaders(hs) ==
  [n \in DOMAIN hs \cup {"Content-Type"} |->
     IF n \in DOMAIN hs THEN hs[n] ELSE ApplicationJson]

\* Mutant of NextDelay: exponential backoff.
NextDelayDoubled(d) == IF d = 0 THEN BackoffStep ELSE 2 * d
\* delay + 15
NextDelay(d) == d + BackoffStep

\* Mutants of Retries: one more round of backoff, and a retry of every
\* status but 200.
RetriesOnceMore(code, d) == code = 429 /\ d <= BackoffLimit + BackoffStep
RetriesAnyFailure(code, d) == code # 200 /\ d <= BackoffLimit

\* Mutants of Classify: a success that loses its body, a give-up reported as
\* a bad response, a failure that keeps the body in the first component, and
\* a stale body returned after a retry.
ClassifyLosesBody(code, body) ==
  IF code = 429 THEN <<Null, GaveUp>>
  ELSE IF code # 200 THEN <<Null, BadResponse(code, body)>>
  ELSE <<PlainObject, Null>>
ClassifyNoGiveUp(code, body) ==
  IF code # 200 THEN <<Null, BadResponse(code, body)>> ELSE <<body, Null>>
ClassifyKeepsBody(code, body) ==
  IF code = 429 THEN <<Null, GaveUp>>
  ELSE IF code # 200 THEN <<body, BadResponse(code, body)>>
  ELSE <<body, Null>>
ClassifyAfterRetry(code, body) ==
  IF code = 429 THEN <<Null, GaveUp>>
  ELSE IF code # 200 THEN <<Null, BadResponse(code, body)>>
  ELSE IF Len(log) > 1 THEN <<log[1].body, Null>>
  ELSE <<body, Null>>

\* What apiFetch does with a parsed response: retry, give up, fail or succeed.
Retries(code, d) == code = 429 /\ d <= BackoffLimit
Classify(code, body) ==
  IF code = 429 THEN <<Null, GaveUp>>
  ELSE IF code # 200 THEN <<Null, BadResponse(code, body)>>
  ELSE <<body, Null>>

\* fetch(uri, { method, body }) rejects with a TypeError, before anything
\* is sent, a GET request that has a body.
Refused(m, p) == m = "GET" /\ RequestBody(p) # Undefined

\* The request apiFetch hands to fetch, with how the call of fetch stands.
Request(status) ==
  [uri |-> uri, delay |-> delay, authz |-> authz, payload |-> payload,
   status |-> status, parsed |-> FALSE, body |-> Null,
   headers |-> MergeHeaders(headers), method |-> method,
   sent |-> RequestBody(payload)]

\* await sleep(delay) is over: the request is built and sent, unless
\* JSON.stringify or fetch throws on it.
Sleep ==
  /\ pc = "sleep"
  /\ now' = After(delay)
  /\ sinceGet' = Later(sinceGet, delay)
  /\ IF StringifyThrows(payload)
       THEN /\ result' = Catch(Thrown(payload))
            /\ pc' = "returned"
            /\ log' = log
     ELSE IF Refused(method, payload)
       THEN /\ result' = Catch("transport")
            /\ pc' = "returned"
            /\ log' = Append(log, Request(TransportError))
       ELSE /\ log' = Append(log, Request(Pending))
            /\ pc' = "fetch"
            /\ result' = result
  /\ UNCHANGED <<caller, uri, delay, payload, authz, headers, method, collection,
                 response, ret, fetched, runs, dataset, token, expiration,
                 issuances, getters, earlier>>

\* The bodies the origin can send with a status for a uri.
BodiesFor(u, status) ==
  IF status = 200 /\ u \in Links
    THEN (IF dataset[u] = Unserved THEN PagesAt(u) ELSE {dataset[u]}) \cup {Null, PlainObject}
    ELSE {Null, PlainObject}

\* Mutant of Settle: fetch is not awaited, the request stays in flight.
SettleNotAwaited(status, parsed, body) == log
\* await fetch(...) has settled: the request is no longer in flight.
Settle(status, parsed, body) ==
  [log EXCEPT ![Len(log)] = [@ EXCEPT !.status = status, !.parsed = parsed, !.body = body]]

\* await fetch(...) settles: a transport exception, or a Response.
Fetch ==
  /\ pc = "fetch"
  /\ \/ /\ result' = Catch("transport")
        /\ pc' = "returned"
        /\ log' = Settle(TransportError, FALSE, Null)
        /\ UNCHANGED <<response, dataset>>
     \/ \E status \in Statuses :
          \/ /\ response' = [status |-> status, parsable |-> FALSE, body |-> Null]
             /\ log' = Settle(status, FALSE, Null)
             /\ pc' = "json"
             /\ UNCHANGED <<result, dataset>>
          \/ \E body \in BodiesFor(uri, status) :
               /\ response' = [status |-> status, parsable |-> TRUE, body |-> body]
               /\ log' = Settle(status, TRUE, body)
               /\ dataset' = IF body.kind = "page" THEN [dataset EXCEPT ![uri] = body]
                                                   ELSE dataset
               /\ pc' = "json"
               /\ UNCHANGED result
  /\ UNCHANGED <<caller, uri, delay, payload, authz, headers, method, collection,
                 ret, fetched, runs, token, expiration, now, issuances, sinceGet,
                 getters, earlier>>

\* Mutant of Json: the status is looked at before the body is parsed, so a 429
\* is retried whatever its body.
JsonStatusFirst ==
  /\ pc = "json"
  /\ IF Retries(response.status, delay)
       THEN /\ delay' = NextDelay(delay)
            /\ pc' = "sleep"
            /\ result' = result
       ELSE IF ~response.parsable
         THEN /\ result' = Catch("parse")
              /\ pc' = "returned"
              /\ delay' = delay
         ELSE /\ result' = Classify(response.status, response.body)
              /\ pc' = "returned"
              /\ delay' = delay
  /\ UNCHANGED <<caller, uri, payload, authz, headers, method, collection,
                 response, ret, log, fetched, runs, dataset, token, expiration,
                 now, issuances, sinceGet, getters, earlier>>
\* await response.json() settles, and the status is classified.
Json ==
  /\ pc = "json"
  /\ IF ~response.parsable
       THEN /\ result' = Catch("parse")
            /\ pc' = "returned"
            /\ delay' = delay
       ELSE IF Retries(response.status, delay)
         THEN /\ delay' = NextDelay(delay)
              /\ pc' = "sleep"
              /\ result' = result
         ELSE /\ result' = Classify(response.status, response.body)
              /\ pc' = "returned"
              /\ delay' = delay
  /\ UNCHANGED <<caller, uri, payload, authz, headers, method, collection,
                 response, ret, log, fetched, runs, dataset, token, expiration,
                 now, issuances, sinceGet, getters, earlier>>

\* -------------------------------------------------------------- apiToken
\* expiration = new Date(); expiration.setSeconds(expiration.getSeconds() + 15)
\* adds the seconds to the local time of the process.  The Date it gives is
\* TokenTTL after t, except where the local clock of the process's time zone
\* goes back: one shift of the zone earlier when set in the time the clock
\* repeats, one shift later when the sum runs over the end of that time's
\* first pass.  The Date is the pair of the seconds and the shifts; the
\* length of the shift is the zone's, whatever the zone.
Shifts == {0 - 1, 0, 1}
Expiration(t, k) == [secs |-> t + TokenTTL, shifts |-> k]
\* The expirations a token stored at time 0 can get, and the exact one.
Lifetimes == {Expiration(0, k) : k \in Shifts}
OnTime == Expiration(0, 0)

\* Mutant of Passed: >=.
PassedOrAt(t, e) == IF e.shifts # 0 THEN e.shifts < 0 ELSE t >= e.secs
\* now > expiration at the time t since the token was stored.  A shift of
\* the zone is longer than the TTL and than the waits and backoff sleeps of
\* a behaviour taken together, so an expiration one shift late is not
\* passed at any t and one a shift early is passed at every t.
Passed(t, e) == IF e.shifts # 0 THEN e.shifts < 0 ELSE t > e.secs

\* Mutants of CacheStale: a token is stale at its expiration already, and a
\* token never goes stale.
CacheStaleAtExpiry == token = NoToken \/ expiration = NoExpiration \/ PassedOrAt(now, expiration)
CacheStaleNoExpiry == token = NoToken \/ expiration = NoExpiration
\* !token || !expiration || now > expiration
CacheStale == token = NoToken \/ expiration = NoExpiration \/ Passed(now, expiration)

\* `${token_type} ${access_token}` of the parsed token document; the n-th
\* issued credential is the number n.
TokenString(status, n) == IF status = 200 THEN n ELSE UndefinedToken

\* Mutant of WithToken: getCSODToken() is called whatever the argument, and
\* its token is used when none was given.
WithTokenAlwaysAsks(tokenArg, uripath, p) ==
  IF tokenArg # NoToken /\ CacheStale
    THEN ApiFetchEnter(CSOD_API_HOST \o uripath, tokenArg, p, <<>>) /\ issuances' = issuances + 1
  ELSE IF ~CacheStale
    THEN ApiFetchEnter(CSOD_API_HOST \o uripath, token, p, <<>>) /\ UNCHANGED issuances
  ELSE /\ issuances' = issuances + 1
       /\ pc' = "tokenFetch"
       /\ uri' = uripath
       /\ payload' = p
       /\ authz' = NoToken
       /\ headers' = <<>>
       /\ delay' = 0
       /\ response' = NoResponse
       /\ result' = NoResult
       /\ fetched' = <<>>
       /\ log' = <<>>
\* token ?? (await getCSODToken()), then the call of apiFetch: with a token
\* at hand apiFetch is entered, otherwise the issuing request is sent first.
WithToken(tokenArg, uripath, p) ==
  IF tokenArg # NoToken
    THEN ApiFetchEnter(CSOD_API_HOST \o uripath, tokenArg, p, <<>>) /\ UNCHANGED issuances
  ELSE IF ~CacheStale
    THEN ApiFetchEnter(CSOD_API_HOST \o uripath, token, p, <<>>) /\ UNCHANGED issuances
  ELSE /\ issuances' = issuances + 1
       /\ pc' = "tokenFetch"
       /\ uri' = uripath
       /\ payload' = p
       /\ authz' = NoToken
       /\ headers' = <<>>
       /\ delay' = 0
       /\ response' = NoResponse
       /\ result' = NoResult
       /\ fetched' = <<>>
       /\ log' = <<>>

\* Mutant of Begin: the collection of the call before is kept.
BeginKeepsCollection(name) ==
  /\ pc = "idle"
  /\ runs' = runs + 1
  /\ caller' = name
  /\ ret' = NoReturn
  /\ collection' = collection
  /\ UNCHANGED <<dataset, token, expiration, now, sinceGet, getters, earlier>>
\* What every top-level call starts from.
Begin(name) ==
  /\ pc = "idle"
  /\ runs' = runs + 1
  /\ caller' = name
  /\ ret' = NoReturn
  /\ collection' = <<>>
  /\ UNCHANGED <<dataset, token, expiration, now, sinceGet, getters, earlier>>

\* syncToEndpoint(uri, payload)
SyncToEndpoint ==
  \E p \in Payloads :
    /\ Begin("syncToEndpoint")
    /\ ApiFetchCall(SyncEndpoint, "Auth-Token" :> SyncToken, p, <<>>)
    /\ authz' = SyncToken
    /\ method' = "POST"
    /\ UNCHANGED issuances

\* fetchFromCSOD(uripath, method, payload, token)
FetchFromCSOD ==
  \E uripath \in Paths, p \in Payloads, tokenArg \in {NoToken, ExplicitToken},
     m \in Methods :
    /\ Begin("fetchFromCSOD")
    /\ WithToken(tokenArg, uripath, p)
    /\ method' = m

\* paginatedFetchFromCSOD(uripath), and with a token: the first call of a walk.
PaginatedFetchFromCSOD ==
  \E uripath \in Paths, tokenArg \in {NoToken, ExplicitToken} :
    /\ Begin("paginatedFetchFromCSOD")
    /\ WithToken(tokenArg, uripath, Null)
    /\ method' = "GET"

\* Mutant of OnTokenError: the error is caught and returned as a failure tuple.
OnTokenErrorCaught(error) == Returned(<<Null, ThrowedUp(error)>>)
\* token ?? (await getCSODToken()) stands outside any try: the caller rejects.
OnTokenError(error) == Raised(error)

\* getOauthToken: await fetch(.../oauth2/token) settles after d seconds.
TokenFetch ==
  /\ pc = "tokenFetch"
  /\ \E d \in Durations, outcome \in TokenOutcomes :
       /\ now' = After(d)
       /\ sinceGet' = Later(sinceGet, d)
       /\ IF outcome = "network"
            THEN /\ ret' = OnTokenError("FetchError")
                 /\ pc' = "done"
                 /\ response' = response
            ELSE /\ response' = [status |-> IF outcome = "non2xx" THEN 500 ELSE 200,
                                 parsable |-> outcome # "unparsable", body |-> PlainObject]
                 /\ pc' = "tokenJson"
                 /\ ret' = ret
  /\ UNCHANGED <<caller, uri, delay, payload, authz, headers, method, collection,
                 result, log, fetched, runs, dataset, token, expiration,
                 issuances, getters, earlier>>

\* fetchAPIToken: await tokenResponse.json() settles; apiToken.get stores the
\* token and its expiration, and the caller goes on to apiFetch.
TokenJson ==
  /\ pc = "tokenJson"
  /\ IF ~response.parsable
       THEN /\ ret' = OnTokenError("SyntaxError")
            /\ pc' = "done"
            /\ UNCHANGED <<token, expiration, now, uri, authz, headers, payload,
                           delay, fetched, log, response, result>>
       ELSE /\ token' = TokenString(response.status, issuances)
            /\ now' = 0
            /\ \E k \in Shifts : expiration' = Expiration(now', k)
            /\ ApiFetchEnter(CSOD_API_HOST \o uri, token', payload, <<>>)
            /\ ret' = ret
  /\ UNCHANGED <<caller, method, collection, runs, dataset, issuances, sinceGet,
                 getters, earlier>>

\* ------------------------------------------ direct calls of apiToken.get
\* What a caller of getCSODToken() alone leaves untouched.
fetchVars == <<caller, pc, uri, delay, payload, authz, headers, method, collection, response, result,
               ret, log, fetched, runs, dataset, earlier>>

\* The status of the token endpoint's answer.
TokenStatus(outcome) == IF outcome = "non2xx" THEN 500 ELSE 200

\* Mutant of Get: a call that finds an issuing request in flight waits for it
\* instead of sending its own.
GetGated(g) ==
  /\ getters[g].pc = "idle"
  /\ \A h \in Getters : h < g => getters[h].pc # "idle"
  /\ sinceGet' = 0
  /\ IF CacheStale /\ \A h \in Getters : getters[h].pc \notin {"fetch", "json"}
       THEN /\ issuances' = issuances + 1
            /\ getters' = [getters EXCEPT ![g] =
                 [@ EXCEPT !.pc = "fetch", !.gap = sinceGet, !.age = now,
                           !.before = token, !.exp = expiration, !.fresh = TRUE, !.n = issuances + 1]]
       ELSE /\ issuances' = issuances
            /\ getters' = [getters EXCEPT ![g] =
                 [@ EXCEPT !.pc = "done", !.gap = sinceGet, !.age = now,
                           !.before = token, !.exp = expiration, !.ret = Returned(token)]]
  /\ UNCHANGED <<fetchVars, token, expiration, now>>

\* Mutant of Get: a cached return renews the expiration.
GetSliding(g) ==
  /\ getters[g].pc = "idle"
  /\ \A h \in Getters : h < g => getters[h].pc # "idle"
  /\ sinceGet' = 0
  /\ IF CacheStale
       THEN /\ issuances' = issuances + 1
            /\ getters' = [getters EXCEPT ![g] =
                 [@ EXCEPT !.pc = "fetch", !.gap = sinceGet, !.age = now,
                           !.before = token, !.exp = expiration, !.fresh = TRUE, !.n = issuances + 1]]
            /\ now' = now
       ELSE /\ issuances' = issuances
            /\ getters' = [getters EXCEPT ![g] =
                 [@ EXCEPT !.pc = "done", !.gap = sinceGet, !.age = now,
                           !.before = token, !.exp = expiration, !.ret = Returned(token)]]
            /\ now' = 0
  /\ UNCHANGED <<fetchVars, token, expiration>>

\* apiToken.get(), the g-th call, made at any time by a caller of its own:
\* up to its await, or to its return when the cached token is still good.
Get(g) ==
  /\ getters[g].pc = "idle"
  /\ \A h \in Getters : h < g => getters[h].pc # "idle"
  /\ sinceGet' = 0
  /\ IF CacheStale
       THEN /\ issuances' = issuances + 1
            /\ getters' = [getters EXCEPT ![g] =
                 [@ EXCEPT !.pc = "fetch", !.gap = sinceGet, !.age = now,
                           !.before = token, !.exp = expiration, !.fresh = TRUE, !.n = issuances + 1]]
       ELSE /\ issuances' = issuances
            /\ getters' = [getters EXCEPT ![g] =
                 [@ EXCEPT !.pc = "done", !.gap = sinceGet, !.age = now,
                           !.before = token, !.exp = expiration, !.ret = Returned(token)]]
  /\ UNCHANGED <<fetchVars, token, expiration, now>>

\* No other get() call is under way: the caller awaits each call before the next.
Alone == \A h \in Getters : getters[h].pc \in {"idle", "done"}
GetAlone(g) == Alone /\ Get(g)

\* getOauthToken of the g-th call: await fetch(.../oauth2/token) settles.
GetFetch(g) ==
  /\ getters[g].pc = "fetch"
  /\ \E d \in Durations, outcome \in TokenOutcomes :
       /\ now' = After(d)
       /\ sinceGet' = Later(sinceGet, d)
       /\ getters' = [getters EXCEPT ![g] =
            IF outcome = "network"
              THEN [@ EXCEPT !.pc = "done", !.outcome = outcome,
                             !.ret = Raised("FetchError")]
              ELSE [@ EXCEPT !.pc = "json", !.outcome = outcome]]
  /\ UNCHANGED <<fetchVars, token, expiration, issuances>>

\* Mutant of Stored: the token of the issuance started last is stored, whoever
\* completes.
StoredOfLatest(outcome, n) ==
  {<<TokenString(TokenStatus(outcome), issuances), k>> : k \in Shifts}
\* The token get() stores, with the shifts of the zone that can come into
\* its expiration.
Stored(outcome, n) == {<<TokenString(TokenStatus(outcome), n), k>> : k \in Shifts}

\* fetchAPIToken of the g-th call: await tokenResponse.json() settles; get()
\* stores the token and its expiration and returns the token.
GetJson(g) ==
  /\ getters[g].pc = "json"
  /\ IF getters[g].outcome = "unparsable"
       THEN /\ getters' = [getters EXCEPT ![g] =
                 [@ EXCEPT !.pc = "done", !.ret = Raised("SyntaxError")]]
            /\ UNCHANGED <<token, expiration, now>>
       ELSE /\ now' = 0
            /\ \E s \in Stored(getters[g].outcome, getters[g].n) :
                 /\ token' = s[1]
                 /\ expiration' = Expiration(now', s[2])
            /\ getters' = [getters EXCEPT ![g] =
                 [@ EXCEPT !.pc = "done", !.stored = TRUE, !.ret = Returned(token')]]
  /\ UNCHANGED <<fetchVars, issuances, sinceGet>>

\* The caller lets time pass between two calls, once and while it has a call
\* to make.
Wait ==
  /\ pc = "idle"
  /\ sinceGet \in Durations
  /\ \E g \in Getters : getters[g].pc = "idle"
  /\ \E d \in Waits :
       /\ now' = After(d)
       /\ sinceGet' = Later(sinceGet, d)
  /\ UNCHANGED <<fetchVars, token, expiration, issuances, getters>>

\* ------------------------------------------- the callers after apiFetch
\* Mutant of HasValue: an empty value is rejected like a missing one.
HasValueNonEmpty(body) == body.kind = "page" /\ body.value # <<>>
\* [...collection, ...response['value']] throws on a body without an
\* iterable value.
HasValue(body) == body.kind = "page"
\* Mutant of NoNextLink: the walk ends on an empty page.
NoNextLinkOnEmptyPage(body) == body.value = <<>>
\* Mutant of NoNextLink: the test is inverted.
NoNextLinkInverted(body) == body.nextLink # NoLink
\* !nextLink
NoNextLink(body) == body.nextLink = NoLink

\* Mutants of Accumulate: the new page goes in front, and the new page is
\* appended twice.
AccumulateInFront(coll, body) == body.value \o coll
AccumulateTwice(coll, body) == coll \o body.value \o body.value
\* collection = [...collection, ...response['value']]
Accumulate(coll, body) == coll \o body.value
\* Mutant of OnFetchError: the failure is thrown.
OnFetchErrorThrows(coll) == Raised("FetchError")
\* if (fetchError) { ...; return collection }
OnFetchError(coll) == Returned(coll)

\* Mutant of OnMissingValue: the collection so far is returned.
OnMissingValueReturns(coll) == Returned(coll)
\* [...collection, ...response['value']] throws, outside any try.
OnMissingValue(coll) == Raised("TypeError")

\* Mutant of Uri: the host is put in front of every uripath.
UriWithHost(given, uripath) == CSOD_API_HOST \o uripath
\* collection ? uripath : `${CSOD_API_HOST}${uripath}`
Uri(given, uripath) == IF given THEN uripath ELSE CSOD_API_HOST \o uripath

\* apiFetch has returned: fetchFromCSOD and syncToEndpoint return its tuple;
\* paginatedFetchFromCSOD returns the collection or fetches the next page.
Return ==
  /\ pc = "returned"
  /\ IF IsRejected(result)
       THEN /\ ret' = result[1]
            /\ pc' = "done"
            /\ UNCHANGED <<uri, delay, payload, authz, headers, collection, response,
                           result, log, fetched>>
     ELSE IF caller # "paginatedFetchFromCSOD"
       THEN /\ ret' = Returned(result)
            /\ pc' = "done"
            /\ UNCHANGED <<uri, delay, payload, authz, headers, collection, response,
                           result, log, fetched>>
     ELSE IF result[2] # Null
       THEN /\ ret' = OnFetchError(collection)
            /\ pc' = "done"
            /\ UNCHANGED <<uri, delay, payload, authz, headers, collection, response,
                           result, log, fetched>>
     ELSE IF ~HasValue(result[1])
       THEN /\ ret' = OnMissingValue(collection)
            /\ pc' = "done"
            /\ UNCHANGED <<uri, delay, payload, authz, headers, collection, response,
                           result, log, fetched>>
     ELSE IF NoNextLink(result[1])
       THEN /\ collection' = Accumulate(collection, result[1])
            /\ ret' = Returned(collection')
            /\ pc' = "done"
            /\ UNCHANGED <<uri, delay, payload, authz, headers, response, result, log,
                           fetched>>
     ELSE /\ Len(fetched) < MaxCalls
          /\ collection' = Accumulate(collection, result[1])
          /\ ApiFetchEnter(Uri(TRUE, result[1].nextLink), authz, Null, fetched)
          /\ ret' = ret
  /\ UNCHANGED <<caller, method, runs, dataset, token, expiration, now, issuances,
                 sinceGet, getters, earlier>>

\* ------------------------------------------------------------ getAllUsers
\* The rows of a full page (1000 in the code, scaled to the pages of the model),
\* and the path of the users view.
PageSize == 2
UsersPath == <<"p1">>

\* getAllUsers(token) up to its first await.
GetAllUsers ==
  /\ Begin("getAllUsers")
  /\ uri' = CSOD_API_HOST \o UsersPath
  /\ authz' = ExplicitToken
  /\ headers' = ("Content-Type" :> ApplicationJson) @@ ("Authorization" :> ExplicitToken)
  /\ method' = "GET"
  /\ payload' = Null
  /\ delay' = 0
  /\ fetched' = <<uri'>>
  /\ log' = <<>>
  /\ response' = NoResponse
  /\ result' = NoResult
  /\ pc' = "usersFetch"
  /\ UNCHANGED issuances

\* await fetch(apiUrl, ...) settles: the rejection is not caught.
UsersFetch ==
  /\ pc = "usersFetch"
  /\ \/ /\ ret' = Raised("FetchError")
        /\ pc' = "done"
        /\ UNCHANGED <<response, dataset>>
     \/ \E status \in Statuses :
          \/ /\ response' = [status |-> status, parsable |-> FALSE, body |-> Null]
             /\ pc' = "usersJson"
             /\ UNCHANGED <<ret, dataset>>
          \/ \E body \in BodiesFor(uri, status) :
               /\ response' = [status |-> status, parsable |-> TRUE, body |-> body]
               /\ dataset' = IF body.kind = "page" THEN [dataset EXCEPT ![uri] = body]
                                                   ELSE dataset
               /\ pc' = "usersJson"
               /\ UNCHANGED ret
  /\ UNCHANGED <<caller, uri, delay, payload, authz, headers, method, collection,
                 result, log, fetched, runs, token, expiration, now, issuances,
                 sinceGet, getters, earlier>>

\* Mutant of UsersStop: the loop ends on a page without a next link.
UsersStopOnNoLink(body) == body.nextLink = NoLink
\* if (users.length < 1000) break
UsersStop(body) == Len(body.value) < PageSize

\* await usersResp.json() settles; the page is appended and the loop ends or
\* goes on with the next link, which fetch rejects when it is undefined.
UsersJson ==
  /\ pc = "usersJson"
  /\ IF ~response.parsable
       THEN /\ ret' = Raised("SyntaxError")
            /\ pc' = "done"
            /\ UNCHANGED <<uri, collection, fetched>>
     ELSE IF ~HasValue(response.body)
       THEN /\ ret' = Raised("TypeError")
            /\ pc' = "done"
            /\ UNCHANGED <<uri, collection, fetched>>
     ELSE IF UsersStop(response.body)
       THEN /\ collection' = Accumulate(collection, response.body)
            /\ ret' = Returned(collection')
            /\ pc' = "done"
            /\ UNCHANGED <<uri, fetched>>
     ELSE IF response.body.nextLink = NoLink
       THEN /\ collection' = Accumulate(collection, response.body)
            /\ uri' = NoLink
            /\ ret' = Raised("InvalidURL")
            /\ pc' = "done"
            /\ UNCHANGED fetched
     ELSE /\ Len(fetched) < MaxCalls
          /\ collection' = Accumulate(collection, response.body)
          /\ uri' = response.body.nextLink
          /\ fetched' = Append(fetched, uri')
          /\ pc' = "usersFetch"
          /\ ret' = ret
  /\ UNCHANGED <<caller, delay, payload, authz, headers, method, response, result,
                 log, runs, dataset, token, expiration, now, issuances, sinceGet,
                 getters, earlier>>

\* -------------------------------------------------------- getUserInfoById
\* The user ids a caller asks for, and the uri of the filtered users view.
UserIds == {"u1", "u2", "u3"}
UserUri(userId) == CSOD_API_HOST \o UsersPath \o <<userId>>
UserIdOf(u) == u[Len(u)]
\* The sleeps of index.ts: after a 429, and before the placeholder.
UserRetrySleep == 60
UserDegradeSleep == 20

\* The row of a user, and what the view answers for a user id with a 200:
\* the row, no row, or a JSON body without value.
UserRow(userId) == [kind |-> "user", user_id |-> userId, user_status_id |-> 1]
UserBodies(userId) ==
  {ODataResponse(<<UserRow(userId)>>, NoLink), ODataResponse(<<>>, NoLink), Null, PlainObject}

\* fakeUser(userId, err): the error is logged, not returned.
FakeUser(userId, err) == [kind |-> "user", user_id |-> userId, user_status_id |-> 999]

\* user.value[0]
FirstOf(value) == IF value = <<>> THEN Undefined ELSE value[1]

\* getUserInfoById(token, userId) up to its first await.
GetUserInfoById ==
  \E userId \in UserIds :
    /\ Begin("getUserInfoById")
    /\ uri' = UserUri(userId)
    /\ authz' = ExplicitToken
    /\ headers' = ("Content-Type" :> ApplicationJson) @@ ("Authorization" :> ExplicitToken)
    /\ method' = "GET"
    /\ payload' = Null
    /\ delay' = 0
    /\ fetched' = <<uri'>>
    /\ log' = <<>>
    /\ response' = NoResponse
    /\ result' = NoResult
    /\ pc' = "userFetch"
    /\ UNCHANGED issuances

\* Mutant of OnUserFetchError: no caller catches the rejection.
OnUserFetchErrorRaises(attempts, userId) == Raised("FetchError")
\* await fetch(apiUrl, ...) stands before the try: the call rejects, and the
\* call that awaits it inside its try, if there is one, returns the placeholder.
OnUserFetchError(attempts, userId) ==
  IF attempts = 1 THEN Raised("FetchError") ELSE Returned(FakeUser(userId, "FetchError"))

\* await fetch(apiUrl, ...) settles; the status decides what is awaited next.
UserFetch ==
  /\ pc = "userFetch"
  /\ \/ /\ ret' = OnUserFetchError(Len(fetched), UserIdOf(uri))
        /\ pc' = "done"
        /\ response' = response
     \/ \E status \in Statuses, parsable \in BOOLEAN :
          \E body \in IF status = 200 /\ parsable THEN UserBodies(UserIdOf(uri)) ELSE {Null} :
            /\ response' = [status |-> status, parsable |-> parsable, body |-> body]
            /\ pc' = IF status = 200 THEN "userJson"
                      ELSE IF status = 429 THEN "userSleep" ELSE "userDegrade"
            /\ ret' = ret
  /\ UNCHANGED <<caller, uri, delay, payload, authz, headers, method, collection,
                 result, log, fetched, runs, dataset, token, expiration, now,
                 issuances, sinceGet, getters, earlier>>

\* await userResp.json() settles: the first row is returned; what is thrown
\* here is caught.
UserJson ==
  /\ pc = "userJson"
  /\ ret' = IF ~response.parsable
              THEN Returned(FakeUser(UserIdOf(uri), "SyntaxError"))
            ELSE IF ~HasValue(response.body)
              THEN Returned(FakeUser(UserIdOf(uri), "TypeError"))
            ELSE Returned(FirstOf(response.body.value))
  /\ pc' = "done"
  /\ UNCHANGED <<caller, uri, delay, payload, authz, headers, method, collection,
                 response, result, log, fetched, runs, dataset, token, expiration,
                 now, issuances, sinceGet, getters, earlier>>

\* await sleep(60) is over: getUserInfoById(token, userId) is called again.
UserSleep ==
  /\ pc = "userSleep"
  /\ Len(fetched) < MaxCalls
  /\ now' = After(UserRetrySleep)
  /\ sinceGet' = Later(sinceGet, UserRetrySleep)
  /\ fetched' = Append(fetched, uri)
  /\ response' = NoResponse
  /\ pc' = "userFetch"
  /\ UNCHANGED <<caller, uri, delay, payload, authz, headers, method, collection,
                 result, ret, log, runs, dataset, token, expiration, issuances,
                 getters, earlier>>

\* await sleep(20) is over: the placeholder is returned.
UserDegrade ==
  /\ pc = "userDegrade"
  /\ now' = After(UserDegradeSleep)
  /\ sinceGet' = Later(sinceGet, UserDegradeSleep)
  /\ ret' = Returned(FakeUser(UserIdOf(uri), response.status))
  /\ pc' = "done"
  /\ UNCHANGED <<caller, uri, delay, payload, authz, headers, method, collection,
                 response, result, log, fetched, runs, dataset, token, expiration,
                 issuances, getters, earlier>>

\* --------------------------------------------------------- getTranscripts
\* `${CSOD_API_HOST}/TranscriptAndTask/Transcript?PageNumber=${page}&UserId=${user}...`
TranscriptUri(user, page) == CSOD_API_HOST \o <<"Transcript", ToString(page), user>>
\* TranscriptData: data[0].Transcripts, or a data without rows.
TranscriptData(items) == [kind |-> "transcripts", data |-> <<[Transcripts |-> items]>>]
NoData == [kind |-> "transcripts", data |-> <<>>]
\* What the transcript endpoint answers with a status.
TranscriptBodies(u, status) ==
  IF status = 200
    THEN {TranscriptData(ItemsOf(u[3], n)) : n \in 0..MaxItems} \cup {NoData, Null, PlainObject}
    ELSE {Null, PlainObject}
\* An Error object, and the object getJson throws for a status other than 200.
Error(name) == [kind |-> "error", name |-> name]
FetchFailed(apiUrl, data) == [message |-> "Fetch failed", apiUrl |-> apiUrl, data |-> data]

\* getTranscripts(token, user) up to its first await, in getJson.
GetTranscripts ==
  \E user \in UserIds :
    /\ Begin("getTranscripts")
    /\ uri' = TranscriptUri(user, 1)
    /\ authz' = ExplicitToken
    /\ headers' = ("Content-Type" :> ApplicationJson) @@ ("Authorization" :> ExplicitToken)
    /\ method' = "GET"
    /\ payload' = Null
    /\ delay' = 0
    /\ fetched' = <<uri'>>
    /\ log' = <<>>
    /\ response' = NoResponse
    /\ result' = NoResult
    /\ pc' = "transcriptFetch"
    /\ UNCHANGED issuances

\* getJson: await fetch(apiUrl, ...) settles; a rejection is caught and returned.
TranscriptFetch ==
  /\ pc = "transcriptFetch"
  /\ \/ /\ result' = <<Null, Error("FetchError")>>
        /\ pc' = "transcriptReturned"
        /\ response' = response
     \/ \E status \in Statuses :
          \/ /\ response' = [status |-> status, parsable |-> FALSE, body |-> Null]
             /\ pc' = "transcriptJson"
             /\ result' = result
          \/ \E body \in TranscriptBodies(uri, status) :
               /\ response' = [status |-> status, parsable |-> TRUE, body |-> body]
               /\ pc' = "transcriptJson"
               /\ result' = result
  /\ UNCHANGED <<caller, uri, delay, payload, authz, headers, method, collection,
                 ret, log, fetched, runs, dataset, token, expiration, now,
                 issuances, sinceGet, getters, earlier>>

\* getJson: await apiResponse.json() settles, then the status is tested; what
\* is thrown is caught and returned.
TranscriptJson ==
  /\ pc = "transcriptJson"
  /\ result' = IF ~response.parsable THEN <<Null, Error("SyntaxError")>>
               ELSE IF response.status # 200
                 THEN <<Null, FetchFailed(uri, response.body)>>
               ELSE <<response.body, Null>>
  /\ pc' = "transcriptReturned"
  /\ UNCHANGED <<caller, uri, delay, payload, authz, headers, method, collection,
                 response, ret, log, fetched, runs, dataset, token, expiration,
                 now, issuances, sinceGet, getters, earlier>>

\* err.data of the catch in getTranscripts.
ErrData(err) == IF "data" \in DOMAIN err THEN err.data ELSE Undefined
\* Mutant of OnTranscriptError: the transcripts read so far are returned.
OnTranscriptErrorKeeps(coll, err) ==
  IF err = Null THEN Raised("TypeError") ELSE Returned(<<coll, ErrData(err)>>)
\* catch (err) { ...; return [[], err.data] }: reading data of null throws.
OnTranscriptError(coll, err) ==
  IF err = Null THEN Raised("TypeError") ELSE Returned(<<<<>>, ErrData(err)>>)

\* transcriptData?.data[0]?.Transcripts.length > 0
HasTranscripts(body) == body.data # <<>> /\ Len(body.data[1].Transcripts) > 0

\* await getJson(token, apiUrl) settles in getTranscripts: the page is
\* appended and the next one asked for, or the loop ends.
TranscriptReturned ==
  /\ pc = "transcriptReturned"
  /\ IF result[1] = Null
       THEN /\ ret' = OnTranscriptError(collection, result[2])
            /\ pc' = "done"
            /\ UNCHANGED <<uri, collection, fetched, response>>
     ELSE IF result[1].kind # "transcripts"
       THEN /\ ret' = OnTranscriptError(collection, Error("TypeError"))
            /\ pc' = "done"
            /\ UNCHANGED <<uri, collection, fetched, response>>
     ELSE IF ~HasTranscripts(result[1])
       THEN /\ ret' = Returned(<<collection, Null>>)
            /\ pc' = "done"
            /\ UNCHANGED <<uri, collection, fetched, response>>
     ELSE /\ Len(fetched) < MaxCalls
          /\ collection' = collection \o result[1].data[1].Transcripts
          /\ uri' = TranscriptUri(uri[4], Len(fetched) + 1)
          /\ fetched' = Append(fetched, uri')
          /\ response' = NoResponse
          /\ pc' = "transcriptFetch"
          /\ ret' = ret
  /\ UNCHANGED <<caller, delay, payload, authz, headers, method, result, log, runs,
                 dataset, token, expiration, now, issuances, sinceGet, getters,
                 earlier>>

\* A call of apiFetch with headers of any kind, as its own module can make it.
ApiFetch ==
  \E u \in Links, hs \in HeaderObjects, p \in Payloads, m \in Methods :
    /\ Begin("apiFetch")
    /\ ApiFetchCall(u, hs, p, <<>>)
    /\ authz' = IF "Authorization" \in DOMAIN hs THEN hs["Authorization"] ELSE NoToken
    /\ method' = m
    /\ UNCHANGED issuances

\* The caller has its result and goes on to its next call.
Again ==
  /\ pc = "done"
  /\ Len(earlier) + 1 < MaxWalks
  /\ earlier' = Append(earlier, [caller |-> caller,
                                  start |-> IF fetched = <<>> THEN <<>> ELSE fetched[1],
                                  complete |-> result[2] = Null,
                                  fetched |-> fetched,
                                  ret |-> ret])
  /\ pc' = "idle"
  /\ UNCHANGED <<caller, uri, delay, payload, authz, headers, method, collection,
                 response, result, ret, log, fetched, runs, dataset, token,
                 expiration, now, issuances, sinceGet, getters>>

Next ==
  \/ SyncToEndpoint
  \/ FetchFromCSOD
  \/ PaginatedFetchFromCSOD
  \/ TokenFetch
  \/ TokenJson
  \/ Sleep
  \/ Fetch
  \/ Json
  \/ Return

Spec == Init /\ [][Next]_vars

\* A caller that calls getCSODToken() several times, one call after another.
NextToken ==
  \/ \E g \in Getters : GetAlone(g)
  \/ \E g \in Getters : GetFetch(g)
  \/ \E g \in Getters : GetJson(g)
  \/ Wait

SpecToken == Init /\ [][NextToken]_vars

\* Callers that call getCSODToken() without awaiting one another.
NextOverlap ==
  \/ \E g \in 1..MaxOverlap : Get(g)
  \/ \E g \in Getters : GetFetch(g)
  \/ \E g \in Getters : GetJson(g)
  \/ Wait

SpecOverlap == Init /\ [][NextOverlap]_vars

\* A caller that walks one collection several times, one walk after another,
\* with a token of its own.
FirstPath == CHOOSE p \in Paths : TRUE
NextWalks ==
  \/ PaginatedFetchFromCSOD /\ authz' = ExplicitToken /\ uri' = CSOD_API_HOST \o FirstPath
  \/ Sleep
  \/ Fetch
  \/ Json
  \/ Return
  \/ Again

SpecWalks == Init /\ [][NextWalks]_vars

\* A caller that walks the users view with paginatedFetchFromCSOD and then
\* with getAllUsers, with a token of its own.
NextUsers ==
  \/ /\ earlier = <<>>
     /\ PaginatedFetchFromCSOD
     /\ authz' = ExplicitToken
     /\ uri' = CSOD_API_HOST \o UsersPath
  \/ Sleep
  \/ Fetch
  \/ Json
  \/ Return
  \/ Again
  \/ earlier # <<>> /\ GetAllUsers
  \/ UsersFetch
  \/ UsersJson

SpecUsers == Init /\ [][NextUsers]_vars

\* One call of apiFetch.
NextRequest ==
  \/ ApiFetch
  \/ Sleep
  \/ Fetch
  \/ Json
  \/ Return

SpecRequest == Init /\ [][NextRequest]_vars

\* One walk of paginatedFetchFromCSOD in which every request sent gets its
\* answer (or its exception), every timer fires and every continuation runs.
NextPaginated ==
  \/ PaginatedFetchFromCSOD
  \/ TokenFetch
  \/ TokenJson
  \/ Sleep
  \/ Fetch
  \/ Json
  \/ Return

Fairness ==
  /\ WF_vars(TokenFetch)
  /\ WF_vars(TokenJson)
  /\ WF_vars(Sleep)
  /\ WF_vars(Fetch)
  /\ WF_vars(Json)
  /\ WF_vars(Return)

SpecPaginated == Init /\ [][NextPaginated]_vars /\ Fairness

\* A call of fetchFromCSOD or paginatedFetchFromCSOD with a token of the
\* caller's, while another caller calls getCSODToken(), at any moment of the
\* call, and is answered with a token at once.
NextExplicit ==
  \/ /\ FetchFromCSOD
     /\ authz' = ExplicitToken /\ uri' = CSOD_API_HOST \o FirstPath
     /\ payload' = Null /\ method' = "GET"
  \/ PaginatedFetchFromCSOD /\ authz' = ExplicitToken /\ uri' = CSOD_API_HOST \o FirstPath
  \/ Sleep
  \/ Fetch
  \/ Json
  \/ Return
  \/ Get(1)
  \/ GetFetch(1) /\ getters'[1].outcome = "ok" /\ now' = now
  \/ GetJson(1)

SpecExplicit == Init /\ [][NextExplicit]_vars

\* A caller that calls getCSODToken(), lets time pass and then walks a
\* collection without a token of its own.
NextCached ==
  \/ Get(1) /\ pc = "idle"
  \/ GetFetch(1)
  \/ GetJson(1)
  \/ Wait /\ getters[1].pc = "done"
  \/ /\ getters[1].pc = "done"
     /\ PaginatedFetchFromCSOD
     /\ authz' # ExplicitToken /\ uri' \in {FirstPath, CSOD_API_HOST \o FirstPath}
  \/ TokenFetch
  \/ TokenJson
  \/ Sleep
  \/ Fetch
  \/ Json
  \/ Return

SpecCached == Init /\ [][NextCached]_vars

\* One call of getUserInfoById.
NextUser ==
  \/ GetUserInfoById
  \/ UserFetch
  \/ UserJson
  \/ UserSleep
  \/ UserDegrade

SpecUser == Init /\ [][NextUser]_vars

\* One call of getTranscripts.
NextTranscripts ==
  \/ GetTranscripts
  \/ TranscriptFetch
  \/ TranscriptJson
  \/ TranscriptReturned

SpecTranscripts == Init /\ [][NextTranscripts]_vars

\* ================================================================ claims
\* The attempts of the current apiFetch call and the last of them.
Attempts == Len(log)
Last == log[Len(log)]
\* apiFetch has returned (and its caller may have returned too).
ApiFetchReturned == pc \in {"returned", "done"} /\ fetched # <<>>
\* The attempt i got an answer with a JSON body.
Answered(i, status) == log[i].status = status /\ log[i].parsed
\* The attempt i threw: in fetch, or in response.json().
Threw(i) == log[i].status = TransportError \/ (log[i].status \in Statuses /\ ~log[i].parsed)

\* C1, as stated: one apiFetch call issues at most 5 HTTP requests, after
\* sleeps of 0, 15, 30, 45 and 60 seconds; no attempt follows a sleep longer
\* than 60 seconds.
C1_AtMostFiveAttempts ==
  /\ Attempts <= 5
  /\ \A i \in 1..Attempts : log[i].delay = 15 * (i - 1) /\ log[i].delay <= 60

\* C1, amended: one apiFetch call issues at most 6 HTTP requests, after
\* sleeps of 0, 15, 30, 45, 60 and 75 seconds; no attempt follows a sleep
\* longer than 75 seconds.
C1_AtMostSixAttempts ==
  /\ Attempts <= 6
  /\ \A i \in 1..Attempts : log[i].delay = 15 * (i - 1) /\ log[i].delay <= 75

\* C1, witness: the sixth request is in flight, sent after a sleep of 75 s.
C1_SixthAttempt == pc = "fetch" /\ Attempts = 6 /\ Last.delay = 75

\* C2, as stated: 429 on the attempts with delays 0, 15, 30, 45 and 60 makes
\* the call return the gave-up failure, whatever comes later.
C2_GaveUpAfterFive ==
  (ApiFetchReturned /\ ~IsRejected(result) /\ Attempts >= 5
     /\ \A i \in 1..5 : Answered(i, 429))
    => result = <<Null, [ok |-> FALSE, code |-> 0, body |-> [message |-> "429 - Gave up"]]>>

\* C2, amended: 429 on all six attempts, with delays 0, 15, 30, 45, 60 and
\* 75, makes the call return the gave-up failure without a further request;
\* after five 429 answers a sixth request is sent and its answer decides.
C2_GaveUpAfterSix ==
  /\ (Attempts = 6 /\ \A i \in 1..6 : Answered(i, 429))
       => \/ pc = "json"
          \/ /\ ApiFetchReturned
             /\ result = <<Null, [ok |-> FALSE, code |-> 0,
                                  body |-> [message |-> "429 - Gave up"]]>>
  /\ (Attempts = 5 /\ \A i \in 1..5 : Answered(i, 429))
       => pc \in {"json", "sleep"}

\* C2, witness: the call gave up after six 429 answers.
C2_GaveUp ==
  /\ pc = "returned" /\ Attempts = 6 /\ Answered(6, 429)
  /\ result[2] = GaveUp

\* C3: apiFetch never raises: whatever the answers (any status, unparsable
\* body, transport exception) and whatever the payload (unserializable
\* included), its promise resolves to a tuple.  Violated: a payload whose
\* toJSON throws a BigInt makes the catch block's logger.error throw, and
\* the promise rejects with a TypeError.
C3_NeverRaises == ApiFetchReturned => ~IsRejected(result) /\ Len(result) = 2

\* C4: one or more 429 answers and then a 200 answer (with a JSON body) on
\* an attempt with delay 15..60 make the call return success with the body
\* of that 200 answer, and no request follows.
C4_SuccessAfterRetry ==
  \A n \in 2..Attempts :
    (/\ \A i \in 1..(n - 1) : Answered(i, 429)
     /\ Answered(n, 200)
     /\ log[n].delay \in {0, 15, 30, 45, 60})
      => /\ n = Attempts
         /\ pc \in {"json", "returned", "done"}
         /\ pc # "json" => result = <<log[n].body, Null>>

\* C4, witness: success on the attempt with delay 60, after four 429 answers.
C4_SuccessAtSixty ==
  /\ pc = "returned" /\ Attempts = 5 /\ Last.delay = 60
  /\ \A i \in 1..4 : Answered(i, 429)
  /\ Answered(5, 200) /\ result[1] = Last.body /\ Last.body.kind = "page"

\* C5, as stated: every result has exactly one component populated; neither
\* [null, null] nor [body, error] is ever returned.
C5_ExactlyOnePopulated ==
  (ApiFetchReturned /\ ~IsRejected(result))
    => ((result[1] # Null) # (result[2] # Null))

\* C5, amended: the error is null exactly when the last answer was a 200
\* with a JSON body, and the body is then that JSON; otherwise the body is
\* null; [body, error] is never returned, and [null, null] is returned
\* exactly for a 200 answer whose JSON is null.
C5_AtMostOnePopulated ==
  (ApiFetchReturned /\ ~IsRejected(result)) =>
    /\ ~(result[1] # Null /\ result[2] # Null)
    /\ result[2] = Null <=> (Attempts > 0 /\ Answered(Attempts, 200))
    /\ result[2] = Null => result[1] = Last.body
    /\ result = <<Null, Null>> <=>
         (Attempts > 0 /\ Answered(Attempts, 200) /\ Last.body = Null)

\* C5, witness: a 200 answer with the JSON null was returned as [null, null].
C5_NullBody ==
  /\ pc = "returned" /\ Attempts > 0
  /\ Answered(Attempts, 200) /\ Last.body = Null /\ result = <<Null, Null>>

\* C6: a 200 answer (with a JSON body) makes apiFetch return success with
\* exactly that JSON as the body, with no retry and no further request.
C6_SuccessBody ==
  \A n \in 1..Attempts :
    Answered(n, 200)
      => /\ n = Attempts
         /\ pc \in {"json", "returned", "done"}
         /\ pc # "json" => result[1] = log[n].body /\ result[2] = Null

\* C6, witness: a page was returned on the first attempt.
C6_FirstAttemptSuccess ==
  /\ pc = "returned" /\ Attempts = 1 /\ Answered(1, 200)
  /\ result[1].kind = "page" /\ Len(result[1].value) > 0

\* C7: an answer with a status other than 200 and 429 (and a JSON body)
\* makes apiFetch return a failure carrying that status and that body; the
\* request is not retried.
C7_BadResponse ==
  \A n \in 1..Attempts :
    (log[n].status \in Statuses \ {200, 429} /\ log[n].parsed)
      => /\ n = Attempts
         /\ pc \in {"json", "returned", "done"}
         /\ pc # "json" => /\ result[1] = Null
                           /\ result[2] # Null
                           /\ result[2].code = log[n].status
                           /\ result[2].body = log[n].body

\* C7, witness: a 500 answer was returned as a failure.
C7_ServerError ==
  /\ pc = "returned" /\ Attempts > 0
  /\ Answered(Attempts, 500) /\ result[2].code = 500

\* C8: an exception of the request or of the parsing of the answer is
\* caught and returned as a failure that carries the error; the request is
\* not retried.
C8_TransportFailure ==
  \A n \in 1..Attempts :
    Threw(n)
      => /\ n = Attempts
         /\ pc \in {"json", "returned", "done"}
         /\ pc # "json" =>
              /\ result[1] = Null
              /\ result[2] # Null
              /\ result[2].body.error =
                   (IF log[n].status = TransportError THEN "transport" ELSE "parse")

\* C8, witness: a connection failed on a retry.
C8_TransportErrorOnRetry ==
  pc = "returned" /\ Attempts = 2 /\ Last.status = TransportError

RECURSIVE ValuesOf(_)
\* value(P1) ++ ... ++ value(Pn) of the pages at the uris us, as the origin
\* holds them.
ValuesOf(us) ==
  IF us = <<>> THEN <<>>
  ELSE ValuesOf(SubSeq(us, 1, Len(us) - 1)) \o
       (IF dataset[us[Len(us)]].kind = "page" THEN dataset[us[Len(us)]].value ELSE <<>>)

Walking == caller = "paginatedFetchFromCSOD"

\* C9: when every page of a chain P1..Pn is fetched successfully and only
\* Pn has no next link, paginatedFetchFromCSOD returns
\* value(P1) ++ ... ++ value(Pn).
C9_Concatenation ==
  (Walking /\ pc = "done" /\ fetched # <<>> /\ result[2] = Null /\ result[1].kind = "page")
    => /\ ret.kind = "value"
       /\ ret.value = ValuesOf(fetched)
       /\ \A i \in 1..Len(fetched) :
            (dataset[fetched[i]].nextLink = NoLink) <=> (i = Len(fetched))

\* C9, witness: the walk of the pages [a, b] and [c] returned three items.
C9_TwoPages ==
  /\ Walking /\ pc = "done" /\ Len(fetched) = 2 /\ result[2] = Null
  /\ ret.kind = "value" /\ Len(ret.value) = 3
  /\ Len(dataset[fetched[1]].value) = 2 /\ Len(dataset[fetched[2]].value) = 1

\* C10: when the fetch of page k fails, paginatedFetchFromCSOD returns
\* exactly the items of the pages 1..k-1, raises nothing and sends no
\* further request.
C10_PartialResult ==
  [][(Walking /\ pc = "returned" /\ result[2] # Null)
       => /\ pc' = "done"
          /\ ret' = [kind |-> "value",
                     value |-> ValuesOf(SubSeq(fetched, 1, Len(fetched) - 1))]
          /\ fetched' = fetched
          /\ log' = log]_vars

\* C10, witness: the second page failed and the first page was returned.
C10_FirstPageOnly ==
  /\ Walking /\ pc = "done" /\ Len(fetched) = 2 /\ result[2] # Null
  /\ ret.kind = "value" /\ Len(ret.value) = 2

\* ------------------------------------------------------- the token cache
\* The request in flight carries the cached credential more than the TTL
\* after its issuance.
CarriesCached == pc = "fetch" /\ authz = token /\ token # NoToken
CarriesExpired == CarriesCached /\ now > TokenTTL

\* C11 as stated: no request carries the cached credential later than its
\* expiry, across retries and pages.
C11_NeverExpiredInFlight == ~CarriesExpired

\* C11: the first request of a top-level call carries a credential issued
\* for it just before, or a cached one no later than the stored expiration
\* (the TTL after the issuance, or one shift of the zone earlier or later
\* than that when the local clock goes back); the retries reuse the
\* credential, and a retry sent with a delay of two backoff steps or more
\* carries it more than the TTL after its issuance.
C11_ExpiredOnLateRetry ==
  /\ (CarriesCached /\ Len(fetched) = 1 /\ delay = 0)
       => IF issuances > Cardinality({g \in Getters : getters[g].fresh})
            THEN now = 0
            ELSE ~Passed(now, expiration)
  /\ (CarriesCached /\ delay >= 2 * BackoffStep) => now > TokenTTL
  /\ token # NoToken => expiration \in Lifetimes
\* C11, witness: the walk took from the cache the credential an earlier get()
\* had stored, and its second page carries it past the stored expiration.
C11_ExpiredOnLaterPage ==
  /\ CarriesExpired /\ Len(fetched) = 2 /\ delay = 0 /\ Passed(now, expiration)
  /\ issuances = 1 /\ getters[1].stored /\ expiration = OnTime

\* The get() calls made so far, and the state in which all of them have settled.
Called == {g \in Getters : getters[g].pc # "idle"}
AllSettled == Called # {} /\ \A g \in Called : getters[g].pc = "done"
Issuing == {g \in Called : getters[g].fresh}

\* C12 as stated: sequential get() calls, each less than the TTL after the
\* previous one and every issuing request answered with a token, make
\* exactly one issuing request.
C12_OneIssuanceWhenClose ==
  (AllSettled /\ \A g \in Called : /\ g > 1 => getters[g].gap < TokenTTL
                                   /\ getters[g].fresh => getters[g].outcome = "ok")
    => issuances = 1

\* C12: sequential get() calls of which the first stores a token and every
\* later one is made no later than the expiration stored with that token
\* make exactly one issuing request; the expiration is the TTL after the
\* store, or one shift of the zone earlier or later than that.
C12_OneIssuanceBeforeExpiry ==
  /\ (AllSettled /\ getters[1].stored
        /\ \A g \in Called : g > 1 => ~Passed(getters[g].age, getters[g].exp))
       => issuances = 1 /\ Issuing = {1}
  /\ \A g \in Called :
       getters[g].before # NoToken => getters[g].exp \in Lifetimes
C12_ThreeCallsOneIssuance ==
  /\ AllSettled /\ Called = {1, 2, 3} /\ getters[1].stored
  /\ getters[2].age = TokenTTL /\ getters[3].age = TokenTTL
  /\ getters[2].exp = OnTime /\ getters[3].exp = OnTime
  /\ issuances = 1

\* C13 as stated: a get() call made more than the TTL after the previous
\* get() call sends an issuing request.
C13_IssuesAfterIdleTTL ==
  \A g \in Called : (g > 1 /\ getters[g].gap > TokenTTL) => getters[g].fresh

\* C13: a get() call made later than the expiration stored with the cached
\* token sends an issuing request; the expiration is the TTL after the
\* store, or one shift of the zone earlier or later than that.
C13_IssuesAfterExpiry ==
  \A g \in Called :
    /\ Passed(getters[g].age, getters[g].exp) => getters[g].fresh
    /\ getters[g].before # NoToken => getters[g].exp \in Lifetimes
C13_ReissuedAfterSlowIssuance ==
  /\ {1, 2} \subseteq Called /\ getters[1].stored
  /\ getters[2].exp = OnTime
  /\ getters[2].age > TokenTTL /\ getters[2].before # NoToken
  /\ getters[2].fresh /\ getters[2].pc = "done" /\ getters[2].stored

\* C14 as stated: a get() call whose issuing request failed, by a network
\* error or a non-2xx answer, raises and stores nothing.
C14_FailedIssuanceRaises ==
  \A g \in Called :
    (getters[g].pc = "done" /\ getters[g].outcome \in {"network", "non2xx"})
      => getters[g].ret.kind = "exception" /\ ~getters[g].stored

\* C15 as stated: a get() call whose issuing request failed leaves the cache
\* as it was, and the next get() call sends a new issuing request.
C15_FailedIssuanceLeavesCache ==
  \A g \in Called :
    (getters[g].pc = "done" /\ getters[g].outcome \in {"network", "non2xx"})
      => /\ ~getters[g].stored
         /\ (g + 1) \in Called => getters[g + 1].fresh
         /\ (g + 1) \notin Called => token = getters[g].before

\* C16 as stated: of overlapping get() calls at most one has an issuing
\* request in flight.
InFlight == {g \in Getters : getters[g].pc \in {"fetch", "json"}}
C16_Gated == Cardinality(InFlight) <= 1

\* C16: get() is not gated: every call that finds no token or one past its
\* stored expiration sends its own issuing request, whatever requests are in
\* flight.
C16_NotGated ==
  /\ \A g \in Called :
       getters[g].fresh <=>
         (getters[g].before = NoToken \/ Passed(getters[g].age, getters[g].exp))
  /\ issuances = Cardinality(Issuing)
C16_TwoInFlight == Cardinality(InFlight) = 2 /\ token = NoToken /\ issuances = 2

\* ---------------------------------------------------- one request at a time
\* The HTTP requests in flight: the issuing request and the unsettled
\* requests of apiFetch.
RequestsInFlight ==
  Cardinality({i \in 1..Len(log) : log[i].status = Pending})
    + (IF pc \in {"tokenFetch", "tokenJson"} THEN 1 ELSE 0)

\* C17: during one top-level call at most one HTTP request is in flight; a
\* request is sent only when the answer to the one before has been received
\* in full (a parsed 429), after the backoff sleep, and after the issuing
\* request has settled.
C17_OneRequestInFlight ==
  /\ RequestsInFlight <= 1
  /\ \A i \in 1..Len(log) :
       /\ log[i].status = Pending => (i = Len(log) /\ pc = "fetch")
       /\ i < Len(log) => Answered(i, 429)
       /\ log[i].delay = (i - 1) * BackoffStep
  /\ pc \in {"tokenFetch", "tokenJson"} => (log = <<>> /\ fetched = <<>>)
C17_RetryInFlight ==
  /\ Walking /\ pc = "fetch" /\ authz = token /\ token # NoToken
  /\ Len(fetched) = 2 /\ Attempts = 2 /\ RequestsInFlight = 1

\* C18: the paginator goes from a page with a next link to the fetch of that
\* link, from a page without one to its return, and from a failed fetch to
\* its return; after the return nothing is sent, and either return is the
\* bare collection.
C18_StateMachine ==
  [][/\ (Walking /\ pc = "returned" /\ ~IsRejected(result)) =>
          /\ (result[2] = Null /\ HasValue(result[1]) /\ result[1].nextLink # NoLink)
               => /\ pc' = "sleep"
                  /\ uri' = result[1].nextLink
                  /\ fetched' = Append(fetched, result[1].nextLink)
                  /\ ret' = NoReturn
          /\ (result[2] = Null /\ HasValue(result[1]) /\ result[1].nextLink = NoLink)
               => /\ pc' = "done"
                  /\ ret' = [kind |-> "value", value |-> collection']
                  /\ fetched' = fetched
          /\ result[2] # Null
               => /\ pc' = "done"
                  /\ ret' = [kind |-> "value", value |-> collection']
                  /\ fetched' = fetched
     /\ (Walking /\ pc = "done") => (pc' = "done" /\ fetched' = fetched /\ log' = log)
    ]_vars
C18_AbortedAfterThreeFetches ==
  /\ Walking /\ pc = "done" /\ Len(fetched) = 3 /\ result[2] # Null
  /\ ret.kind = "value" /\ ret.value # <<>>

\* C19: a first page with an empty value and no next link makes
\* paginatedFetchFromCSOD return the empty sequence, with no further request
\* and no error.
EmptyLastPage == <<ODataResponse(<<>>, NoLink), Null>>
C19_EmptyFirstPage ==
  [][(Walking /\ pc = "returned" /\ Len(fetched) = 1 /\ result = EmptyLastPage)
       => /\ pc' = "done"
          /\ ret' = [kind |-> "value", value |-> <<>>]
          /\ fetched' = fetched
          /\ log' = log]_vars
C19_EmptyCollection ==
  /\ Walking /\ pc = "done" /\ Len(fetched) = 1 /\ result = EmptyLastPage
  /\ Attempts = 1 /\ ret = [kind |-> "value", value |-> <<>>]

\* ------------------------------------------------------------- two walks
IsPrefix(a, b) == Len(a) <= Len(b) /\ SubSeq(b, 1, Len(a)) = a
\* The second walk has returned a collection, like the first, from the same uri.
SecondWalkDone ==
  /\ Len(earlier) = 1 /\ Walking /\ pc = "done" /\ fetched # <<>>
  /\ earlier[1].caller = "paginatedFetchFromCSOD" /\ earlier[1].start = fetched[1]
  /\ earlier[1].ret.kind = "value" /\ ret.kind = "value"

\* C20 as stated: two walks from the same uri over an unchanged dataset
\* return the same sequence, whatever the server interleaves.
C20_SameSequence == SecondWalkDone => ret = earlier[1].ret

\* C20: two walks from the same uri over an unchanged dataset return the same
\* sequence when neither ends on a failed fetch; a walk that does returns a
\* prefix of what the other returns or would have returned.
C20_SameSequenceUnlessFailed ==
  SecondWalkDone =>
    /\ (earlier[1].complete /\ result[2] = Null) => ret = earlier[1].ret
    /\ earlier[1].complete => IsPrefix(ret.value, earlier[1].ret.value)
    /\ result[2] = Null => IsPrefix(earlier[1].ret.value, ret.value)
    /\ IsPrefix(ret.value, earlier[1].ret.value) \/ IsPrefix(earlier[1].ret.value, ret.value)
C20_SameTwoPages ==
  /\ SecondWalkDone /\ earlier[1].complete /\ result[2] = Null
  /\ Len(fetched) = 2 /\ Attempts = 2 /\ Len(ret.value) = 3
  /\ ret = earlier[1].ret

\* ------------------------------------------------------------ duplicates
NoRepeat(seq) == \A i, j \in 1..Len(seq) : i # j => seq[i] # seq[j]

\* C21 as stated: whatever next links the server supplies, no page uri is
\* fetched twice in a walk and no item is returned twice.
C21_NoPageTwice ==
  Walking => /\ NoRepeat(fetched)
             /\ ret.kind = "value" => NoRepeat(ret.value)

\* C21: a walk whose next links never lead back to a uri already fetched
\* returns no item twice.
C21_NoItemTwiceUnlessLinkRepeats ==
  (Walking /\ pc = "done" /\ ret.kind = "value" /\ NoRepeat(fetched))
    => NoRepeat(ret.value)
C21_TwoDistinctPages ==
  /\ Walking /\ pc = "done" /\ ret.kind = "value" /\ result[2] = Null
  /\ Len(fetched) = 2 /\ NoRepeat(fetched)
  /\ Len(dataset[fetched[1]].value) = 1 /\ Len(ret.value) = 3

\* C22: when the issuing request of fetchFromCSOD or paginatedFetchFromCSOD
\* raises, the call raises that error and no data request is made.
C22_TokenErrorPropagates ==
  (caller \in {"fetchFromCSOD", "paginatedFetchFromCSOD"} /\ pc = "done"
     /\ issuances = 1 /\ token = NoToken)
    => /\ ret \in {Raised("FetchError"), Raised("SyntaxError")}
       /\ fetched = <<>>
       /\ log = <<>>
C22_WalkRaisedOnToken ==
  /\ Walking /\ pc = "done" /\ issuances = 1 /\ token = NoToken
  /\ ret = Raised("FetchError") /\ fetched = <<>>

\* ---------------------------------------------------------- getAllUsers
\* getAllUsers has settled after a complete walk of paginatedFetchFromCSOD
\* from the same uri, and every answer it got was a page.
UsersAfterWalk ==
  /\ Len(earlier) >= 1 /\ caller = "getAllUsers" /\ pc = "done"
  /\ earlier[1].caller = "paginatedFetchFromCSOD" /\ earlier[1].start = fetched[1]
  /\ earlier[1].complete /\ earlier[1].ret.kind = "value"
  /\ ret \notin {Raised("FetchError"), Raised("SyntaxError"), Raised("TypeError")}
\* The page at u is full.
Full(u) == Len(dataset[u].value) >= PageSize
\* Exactly the full pages of the walk carry a next link.
FullPagesLinked ==
  \A i \in 1..Len(earlier[1].fetched) :
    Full(earlier[1].fetched[i]) <=> dataset[earlier[1].fetched[i]].nextLink # NoLink

\* C23 as stated: getAllUsers fetches while the last page carried a next
\* link and stops when it carries none, so it sends the requests and returns
\* the sequence of paginatedFetchFromCSOD.
C23_SameAsPaginator ==
  UsersAfterWalk => (fetched = earlier[1].fetched /\ ret = earlier[1].ret)

\* C23: getAllUsers goes on after a full page and stops after a short one,
\* whatever the next link; it sends the requests and returns the sequence of
\* paginatedFetchFromCSOD when exactly the full pages carry a next link.
C23_StopsOnShortPage ==
  UsersAfterWalk =>
    /\ \A i \in 1..(Len(fetched) - 1) : Full(fetched[i])
    /\ ret.kind = "value" => ~Full(fetched[Len(fetched)])
    /\ ret = Raised("InvalidURL") =>
         (Full(fetched[Len(fetched)]) /\ dataset[fetched[Len(fetched)]].nextLink = NoLink)
    /\ FullPagesLinked => (fetched = earlier[1].fetched /\ ret = earlier[1].ret)
C23_SameTwoPages ==
  /\ UsersAfterWalk /\ FullPagesLinked
  /\ Len(fetched) = 2 /\ ret.kind = "value" /\ Len(ret.value) = 3
  /\ fetched = earlier[1].fetched /\ ret = earlier[1].ret

\* ------------------------------------------------------------- the uris
\* C24: the first request of a walk goes to the host followed by the given
\* path, every later one to the next link of the page before, as it came.
C24_NextLinkVerbatim ==
  [][/\ (Walking /\ pc = "tokenJson" /\ pc' = "sleep")
          => (uri' = CSOD_API_HOST \o uri /\ fetched' = <<uri'>>)
     /\ (pc = "idle" /\ pc' = "sleep" /\ caller' = "paginatedFetchFromCSOD")
          => (uri' \in Links /\ fetched' = <<uri'>>)
     /\ (Walking /\ pc = "returned" /\ pc' = "sleep")
          => (uri' = result[1].nextLink /\ fetched' = Append(fetched, uri'))
     /\ (Walking /\ pc = "sleep" /\ pc' = "fetch")
          => log'[Len(log')].uri = fetched[Len(fetched)]
    ]_vars
C24_SecondPageRequested ==
  /\ Walking /\ pc = "fetch" /\ issuances = 1 /\ Len(fetched) = 2
  /\ fetched[1] = CSOD_API_HOST \o <<"p1">>
  /\ fetched[2] = CSOD_API_HOST \o <<"p2">>
  /\ dataset[fetched[1]].nextLink = fetched[2]
  /\ Last.uri = fetched[2]

\* ------------------------------------------------------ the cache's frame
\* C25 as stated: token and expiration are unset together or set together,
\* and they change only when an issuing request completes successfully.
C25_ChangesOnSuccessOnly ==
  /\ [](token = NoToken <=> expiration = NoExpiration)
  /\ [][/\ (token' # token \/ expiration' # expiration)
             => \E g \in Getters : ~getters[g].stored /\ getters'[g].stored
        /\ \A g \in Getters :
             (~getters[g].stored /\ getters'[g].stored)
               => /\ getters[g].outcome = "ok"
                  /\ token' = getters[g].n
                  /\ expiration' \in Lifetimes /\ now' = 0
       ]_vars

\* C26: a get() call made while a token is cached and the time is not past
\* its expiration sends no issuing request, returns the cached token and
\* leaves token and expiration as they are.
C26_CachedGetChangesNothing ==
  [][\A g \in Getters :
       (getters[g].pc = "idle" /\ getters'[g].pc # "idle"
          /\ token # NoToken /\ ~Passed(now, expiration))
         => /\ getters'[g].pc = "done"
            /\ getters'[g].ret = [kind |-> "value", value |-> token]
            /\ ~getters'[g].fresh
            /\ issuances' = issuances
            /\ token' = token /\ expiration' = expiration /\ now' = now
    ]_vars
C26_CachedAtExpiration ==
  /\ Called = {1, 2} /\ getters[2].pc = "done"
  /\ getters[2].age = TokenTTL /\ getters[2].before = 1
  /\ getters[2].ret = [kind |-> "value", value |-> 1]
  /\ ~getters[2].fresh /\ issuances = 1 /\ token = 1 /\ now = TokenTTL
  /\ expiration = OnTime

\* ---------------------------------------------------------- the request
\* C27: every retry resends the request of the first attempt, uri, headers,
\* payload and method, and the delay grows by one backoff step per retry.
C27_RetriesResend ==
  \A i \in 1..Len(log) :
    /\ log[i].uri = log[1].uri
    /\ log[i].headers = log[1].headers
    /\ log[i].authz = log[1].authz
    /\ log[i].payload = log[1].payload
    /\ log[i].sent = log[1].sent
    /\ log[i].method = log[1].method
    /\ i > 1 => log[i].delay = log[i - 1].delay + BackoffStep
C27_ThirdAttemptOfPost ==
  /\ caller = "fetchFromCSOD" /\ pc = "fetch" /\ Attempts = 3
  /\ Last.method = "POST" /\ Last.sent = Stringify(PlainObject)
  /\ Last.delay = 2 * BackoffStep /\ Last.authz = 1

\* The headers of the requests sent are the caller's headers over the
\* default content type.
HeadersAsMerged ==
  \A i \in 1..Len(log) :
    /\ DOMAIN log[i].headers = DOMAIN headers \cup {"Content-Type"}
    /\ \A n \in DOMAIN headers : log[i].headers[n] = headers[n]
    /\ "Content-Type" \notin DOMAIN headers
         => log[i].headers["Content-Type"] = ApplicationJson

\* C28 as stated: the content type is application/json unless the caller
\* supplies one, the other headers are sent as they are, and a JSON body is
\* sent exactly when a payload is supplied.
C28_BodyWhenSupplied ==
  /\ HeadersAsMerged
  /\ \A i \in 1..Len(log) : log[i].sent # Undefined <=> payload # Null

\* C28: the content type is application/json unless the caller supplies one,
\* the other headers are sent as they are, and a JSON body is handed to
\* fetch exactly when the payload is truthy; fetch sends nothing and throws
\* when the method is GET and there is a body.
C28_BodyWhenTruthy ==
  /\ HeadersAsMerged
  /\ \A i \in 1..Len(log) :
       /\ log[i].sent = IF payload \in {Null, Zero} THEN Undefined
                                                  ELSE [kind |-> "json", of |-> payload]
       /\ (log[i].method = "GET" /\ log[i].sent # Undefined)
            => (log[i].status = TransportError /\ i = 1 /\ pc # "fetch")
C28_FalsyPayloadOwnContentType ==
  /\ caller = "apiFetch" /\ Attempts = 1 /\ payload = Zero
  /\ headers = ("Content-Type" :> TextPlain) @@ ("Authorization" :> ExplicitToken)
  /\ Last.sent = Undefined /\ Last.headers["Content-Type"] = TextPlain
  /\ Last.headers["Authorization"] = ExplicitToken

\* -------------------------------------------------- one walk, many pages
\* C29: a walk asks the token cache at most once, before its first request,
\* and every request of the walk carries that one Authorization value.
C29_OneTokenPerWalk ==
  /\ [](Walking =>
          /\ issuances <= 1
          /\ (fetched # <<>> /\ issuances = 1) => authz = token
          /\ (fetched # <<>> /\ issuances = 0) => authz = ExplicitToken
          /\ \A i \in 1..Len(log) :
               log[i].authz = authz /\ log[i].headers["Authorization"] = authz)
  /\ [][(Walking /\ fetched # <<>>)
          => (authz' = authz /\ headers' = headers /\ issuances' = issuances)]_vars
C29_ThirdPageLate ==
  /\ Walking /\ pc = "fetch" /\ Len(fetched) = 3 /\ Attempts = 2
  /\ issuances = 1 /\ now = Horizon /\ Last.authz = 1

\* C30: the first attempt of every page of a walk is made with delay 0,
\* whatever the delays of the pages before.
C30_DelayStartsAtZero ==
  /\ [](Walking => /\ (Attempts >= 1 => log[1].delay = 0)
                    /\ ((pc = "sleep" /\ log = <<>>) => delay = 0))
  /\ [][(Walking /\ pc = "returned" /\ pc' = "sleep") => delay' = 0]_vars
C30_SecondPageAfterBackoff ==
  /\ Walking /\ pc = "fetch" /\ Len(fetched) = 2 /\ Attempts = 1
  /\ Last.delay = 0 /\ authz = ExplicitToken /\ now = Horizon

\* ------------------------------------------------------ overlapping get()
\* C31: of overlapping get() calls each returns the token made from the answer
\* to its own issuing request, and the cache holds the token and expiration
\* of the call that completed last: every completion overwrites both, and
\* nothing else changes them.
C31_OwnTokenLastWins ==
  [][/\ \A g \in Getters :
          (getters[g].pc = "json" /\ getters'[g].pc = "done"
             /\ getters[g].outcome # "unparsable")
            => /\ getters'[g].ret =
                    [kind |-> "value",
                     value |-> TokenString(TokenStatus(getters[g].outcome), getters[g].n)]
               /\ token' = getters'[g].ret.value
               /\ expiration' \in Lifetimes /\ now' = 0
     /\ (token' # token \/ expiration' # expiration)
          => \E g \in Getters : getters[g].pc = "json" /\ getters'[g].pc = "done"
    ]_vars
\* The first call completed after the second: each has its own token, and the
\* cache holds the first call's.
C31_FirstCompletedLast ==
  /\ AllSettled /\ Called = {1, 2} /\ issuances = 2
  /\ getters[1].age = 0 /\ getters[2].age = 0 /\ getters[2].before = NoToken
  /\ getters[1].ret = [kind |-> "value", value |-> 1]
  /\ getters[2].ret = [kind |-> "value", value |-> 2]
  /\ token = 1 /\ expiration = OnTime /\ now = 0

\* ------------------------------------------------------------ termination
\* The walk has settled after an answer to every request of its last page.
Answers == \A i \in 1..Len(log) : log[i].status \in Statuses
\* The pages fetched form a whole chain: each links to the next one fetched,
\* and the last one has no next link.
WholeChain ==
  \A i \in 1..Len(fetched) :
    /\ dataset[fetched[i]] # Unserved
    /\ dataset[fetched[i]].nextLink = (IF i < Len(fetched) THEN fetched[i + 1] ELSE NoLink)

\* The chain of next links is finite: no page served links to itself or to a
\* page fetched before it.
FiniteChain ==
  \A i \in 1..Len(fetched) :
    dataset[fetched[i]] # Unserved
      => \A j \in 1..i : dataset[fetched[i]].nextLink # fetched[j]

\* C32 as stated: a walk over a finite chain whose requests were all answered
\* has returned a collection after fetching each page of the chain exactly
\* once.
C32_ReturnsWholeChain ==
  (Walking /\ pc = "done" /\ fetched # <<>> /\ Answers /\ FiniteChain)
    => (ret.kind = "value" /\ NoRepeat(fetched) /\ WholeChain)

\* C32: a walk whose requests all get an answer settles unless the next
\* links lead back to a page already fetched; it has fetched every page of
\* the chain exactly once when no fetch failed, and only a part of the chain
\* otherwise; on a cycle it settles only by a failed fetch or by a body
\* without value.
C32_SettlesUnlessCycle ==
  /\ Walking ~> (pc = "done" \/ ~NoRepeat(fetched))
  /\ [](Walking /\ pc = "done" =>
          /\ (ret.kind = "value" /\ result[2] = Null)
               => (fetched # <<>> /\ NoRepeat(fetched) /\ WholeChain)
          /\ ~NoRepeat(fetched) => (ret.kind = "exception" \/ result[2] # Null)
          /\ \A i \in 1..(Len(fetched) - 1) :
               /\ dataset[fetched[i]] # Unserved
               /\ dataset[fetched[i]].nextLink = fetched[i + 1])
C32_TwoPagesAfterRetries ==
  /\ Walking /\ pc = "done" /\ ret.kind = "value" /\ result[2] = Null
  /\ Len(fetched) = 2 /\ NoRepeat(fetched) /\ WholeChain
  /\ Attempts = 3 /\ Len(ret.value) = 2

\* --------------------------------------------------------- failure kinds
\* C33: an answer whose body is not JSON ends the call with the failure of a
\* caught exception, whatever its status: a 429 is not retried and a 200 is
\* no success.
C33_UnparsableFails ==
  \A n \in 1..Attempts :
    (log[n].status \in Statuses /\ ~log[n].parsed)
      => /\ n = Attempts
         /\ pc \in {"json", "returned", "done"}
         /\ pc # "json" =>
              /\ result[1] = Null
              /\ result[2] = [ok |-> FALSE, code |-> 0,
                              body |-> [message |-> "fetch throwed up", error |-> "parse"]]
              /\ delay = log[n].delay
C33_Unparsable429 ==
  /\ pc = "returned" /\ Attempts = 2 /\ Answered(1, 429)
  /\ Last.status = 429 /\ ~Last.parsed /\ Last.delay = BackoffStep
  /\ result[2] # Null /\ result[2].code = 0

\* C34: a page answered with 200 and a JSON body without a value (null, or an
\* object that has none) makes paginatedFetchFromCSOD raise; the items of the
\* pages before do not reach the caller.
C34_RaisesWithoutValue ==
  [][(Walking /\ pc = "returned" /\ Attempts > 0 /\ Answered(Attempts, 200)
        /\ Last.body \in {Null, PlainObject})
       => /\ result = <<Last.body, Null>>
          /\ pc' = "done"
          /\ ret' = [kind |-> "exception", error |-> "TypeError"]
          /\ fetched' = fetched
          /\ log' = log]_vars
C34_SecondPageNull ==
  /\ Walking /\ pc = "done" /\ Len(fetched) = 2 /\ Answered(Attempts, 200)
  /\ result = <<Null, Null>> /\ collection # <<>>
  /\ ret = [kind |-> "exception", error |-> "TypeError"]

\* The failure apiFetch returned.
Failed == ApiFetchReturned /\ ~IsRejected(result) /\ result[2] # Null
Failure == result[2]

\* C35 as stated: the failures with ok = false are the give-up and the caught
\* exception, and they differ in body.message alone.
C35_DifferInMessageOnly ==
  (Failed /\ ~Failure.ok) => (Failure.code = 0 /\ DOMAIN Failure.body = {"message"})

\* C35: a status other than 200 and 429 with a JSON body yields ok = true and
\* that status as code; the give-up and the caught exception yield ok = false
\* and code = 0 and differ in body, by the message and by the error that only
\* the caught exception carries; no failure carries the code 429.
C35_FailureKinds ==
  Failed =>
    /\ Failure.code # 429
    /\ Failure.ok <=> (Attempts > 0 /\ Last.status \in Statuses \ {200, 429} /\ Last.parsed)
    /\ Failure.ok => (Failure.code = Last.status /\ Failure.body = Last.body)
    /\ ~Failure.ok =>
         /\ Failure.code = 0
         /\ IF Attempts > 0 /\ Answered(Attempts, 429)
              THEN Failure.body = [message |-> "429 - Gave up"]
              ELSE /\ DOMAIN Failure.body = {"message", "error"}
                   /\ Failure.body.message = "fetch throwed up"
                   /\ Failure.body.error \in {"transport", "parse", "stringify"}
C35_ExceptionAfterRetries ==
  /\ pc = "returned" /\ Attempts = 6 /\ Last.status = TransportError
  /\ Failed /\ ~Failure.ok /\ Failure.code = 0
  /\ Failure.body = [message |-> "fetch throwed up", error |-> "transport"]

\* --------------------------------------------------- the caller's token
\* C36: a call of fetchFromCSOD or paginatedFetchFromCSOD with a token of the
\* caller's sends no issuing request and leaves the cached token and
\* expiration as they are, whatever the cache holds, and every request of the
\* call carries the given token as its Authorization header.
C36_ExplicitTokenSkipsCache ==
  /\ [](\A i \in 1..Len(log) :
          /\ log[i].headers["Authorization"] = ExplicitToken
          /\ DOMAIN log[i].headers = {"Authorization", "Content-Type"})
  /\ [](issuances = Cardinality(Issuing))
  /\ [][fetchVars' # fetchVars
          => (issuances' = issuances /\ token' = token /\ expiration' = expiration
              /\ getters' = getters)]_vars
\* C36, witness: a get() made during the walk, after a backoff sleep of its
\* second page, has stored a token that is still good, and the retry in
\* flight carries the caller's token.
C36_SecondPageBesideCache ==
  /\ Walking /\ pc = "fetch" /\ Len(fetched) = 2
  /\ delay = BackoffStep /\ sinceGet = 0
  /\ token = 1 /\ issuances = 1 /\ ~Passed(now, expiration)
  /\ Last.headers["Authorization"] = ExplicitToken

\* --------------------------------------------------------- getUserInfoById
AskingUser == caller = "getUserInfoById"
Placeholder == [kind |-> "value",
                value |-> [kind |-> "user", user_id |-> uri[Len(uri)], user_status_id |-> 999]]

\* C37 as stated: getUserInfoById returns only after an answer with a status
\* other than 429, and the placeholder for every status but 200 and 429.
C37_ReturnsOnlyOnOtherStatus ==
  (AskingUser /\ pc = "done" /\ ret.kind = "value")
    => /\ response.status \in Statuses \ {429}
       /\ response.status # 200 => ret = Placeholder

\* C37: every status but 200 and 429 gives the placeholder, after 20 s; a 429
\* is followed by a sleep of 60 s and the same request again, however many
\* were sent before; the call settles only on an answer with another status
\* or on a failed request, which makes the first call raise and a retry
\* return the placeholder.
C37_DegradesOrRetries ==
  /\ [](AskingUser /\ pc = "done" =>
          /\ response.status # 429
          /\ response.status \in Statuses \ {200} => ret = Placeholder
          /\ response = NoResponse =>
               ret = (IF Len(fetched) = 1 THEN [kind |-> "exception", error |-> "FetchError"]
                      ELSE Placeholder)
          /\ ret.kind = "exception" => (response = NoResponse /\ Len(fetched) = 1))
  /\ [][(AskingUser /\ pc = "userFetch" /\ response'.status = 429)
          => (pc' = "userSleep" /\ ret' = NoReturn)]_vars
  /\ [][(AskingUser /\ pc = "userSleep")
          => /\ pc' = "userFetch" /\ ret' = NoReturn
             /\ fetched' = Append(fetched, uri) /\ uri' = uri /\ headers' = headers
             /\ now' = (IF now + 60 > Horizon THEN Horizon ELSE now + 60)]_vars
  /\ [][(AskingUser /\ pc = "userDegrade")
          => /\ pc' = "done" /\ ret' = Placeholder /\ fetched' = fetched
             /\ now' = (IF now + 20 > Horizon THEN Horizon ELSE now + 20)]_vars
C37_PlaceholderOnFailedRetry ==
  /\ AskingUser /\ pc = "done" /\ Len(fetched) = 3 /\ response = NoResponse
  /\ ret = Placeholder

\* ---------------------------------------------------------- getTranscripts
\* getTranscripts has settled; its last page failed in getJson, by a status
\* other than 200 or by an exception; its last page was an empty one.
Transcribed == caller = "getTranscripts" /\ pc = "done"
PageFailed == response = NoResponse \/ ~response.parsable \/ response.status # 200
PageEmpty ==
  /\ response.status = 200 /\ response.parsable /\ response.body # Null
  /\ response.body.kind = "transcripts"
  /\ (response.body.data = <<>> \/ response.body.data[1].Transcripts = <<>>)

\* C38 as stated: a failed page makes getTranscripts return an empty list,
\* and a null error comes only with the full accumulation after an empty page.
C38_NullErrorOnlyOnEmptyPage ==
  Transcribed =>
    /\ PageFailed => (ret.kind = "value" /\ ret.value[1] = <<>>)
    /\ (ret.kind = "value" /\ ret.value[2] = Null) => (PageEmpty /\ ret.value[1] = collection)

\* C38: a failed page makes getTranscripts return an empty list whatever it
\* has read, with the body of the answer as the error for a status other
\* than 200 (null, if the body is the JSON null) and undefined for an
\* exception; an empty page makes it return all it has read and a null
\* error; a 200 with the JSON null makes it raise.
C38_DiscardsOnFailure ==
  Transcribed =>
    /\ Len(collection) >= Len(fetched) - 1
    /\ PageFailed =>
         /\ ret.kind = "value" /\ ret.value[1] = <<>>
         /\ ret.value[2] = (IF response.parsable /\ response.status # 200
                              THEN response.body ELSE [kind |-> "undefined"])
    /\ PageEmpty <=> (ret.kind = "value" /\ ret.value[1] = collection /\ ret.value[2] = Null
                         /\ ~PageFailed)
    /\ (ret.kind = "value" /\ ret.value[2] = Null /\ ~PageEmpty)
         => (response.status # 200 /\ response.parsable /\ response.body = Null)
    /\ ret.kind = "exception"
         <=> (response.status = 200 /\ response.parsable /\ response.body = Null)
C38_SecondPageFailed ==
  /\ Transcribed /\ Len(fetched) = 2 /\ Len(collection) = 2
  /\ response.status = 500 /\ response.parsable
  /\ ret = [kind |-> "value", value |-> <<<<>>, PlainObject>>]

====
